---- MODULE Spec2Model ----
(***************************************************************************)
(* A model of the snake game of src/main.py: the Snake (body, committed    *)
(* and pending direction, growth flag), the Food, and the Game that drives *)
(* them (game state, menu selection, score, key handlers, update).         *)
(*                                                                         *)
(* The colours and the difficulty of Options only reach the renderer and   *)
(* the clock; they are not part of the state modelled here, and the        *)
(* LEFT/RIGHT keys of the options menu, which change nothing else, have no *)
(* action. Quitting (the QUIT event, "Quit" in the menu) ends the process: *)
(* the behaviour takes no further step.                                    *)
(***************************************************************************)
EXTENDS Integers, Sequences, FiniteSets

\* The grid, scaled down from the 40 x 30 cells of main.py:20-21. With three
\* or more columns and rows, as there, the four directions lead to four
\* different cells.
GRID_WIDTH == 3
GRID_HEIGHT == 3

\* The largest score the model plays up to: a tick that would eat more is
\* not taken.
MaxScore == 3

\* Game states, main.py:24-27.
MENU == 0
OPTIONS == 1
PLAYING == 2
GAME_OVER == 3

\* Directions, main.py:41-44.
UP == <<0, -1>>
DOWN == <<0, 1>>
LEFT == <<-1, 0>>
RIGHT == <<1, 0>>

Directions == {UP, DOWN, LEFT, RIGHT}

\* What random.randint(0, GRID_WIDTH - 1), random.randint(0, GRID_HEIGHT - 1)
\* can return.
Cells == (0 .. GRID_WIDTH - 1) \X (0 .. GRID_HEIGHT - 1)

\* len(self.menu_options), len(self.options_menu_items)
NumMenuOptions == 3
NumOptionsMenuItems == 4

\* No request, in the two history variables.
NoDirection == <<0, 0>>

VARIABLES
    game_state,       \* Game.game_state
    selected_option,  \* Game.selected_option
    positions,        \* Snake.positions, head first
    direction,        \* Snake.direction, committed by the last move
    next_direction,   \* Snake.next_direction, pending
    grew,             \* Snake.grew
    food,             \* Food.position
    score,            \* Game.score
    pc,               \* where the program is: "idle" between handlers,
                      \* "respawn" inside the while loop of update
    last_request,     \* history: the direction of the latest change_direction
                      \* call since the last move, NoDirection if none
    last_accepted     \* history: the latest such direction that was not the
                      \* opposite of the pending direction when requested

vars == <<game_state, selected_option, positions, direction, next_direction,
          grew, food, score, pc, last_request, last_accepted>>

snake_vars == <<positions, direction, next_direction, grew>>
history_vars == <<last_request, last_accepted>>

----------------------------------------------------------------------------
\* Snake

\* Snake._get_opposite_direction
_get_opposite_direction(d) ==
    IF d = UP THEN DOWN
    ELSE IF d = DOWN THEN UP
    ELSE IF d = LEFT THEN RIGHT
    ELSE IF d = RIGHT THEN LEFT
    ELSE NoDirection

\* change_direction accepting every request.
change_direction_Always(nd, d) == d

\* change_direction comparing the request with the committed direction.
change_direction_Committed(nd, d) ==
    IF direction # _get_opposite_direction(d) THEN d ELSE nd

\* Snake.change_direction: the new value of next_direction.
change_direction(nd, d) ==
    IF nd # _get_opposite_direction(d) THEN d ELSE nd

\* Python's %, whose result for a positive modulus is never negative.
PyMod(a, n) == ((a % n) + n) % n

\* new_position without the reduction modulo the grid.
new_position_NoWrap(pos, dir) == <<pos[1][1] + dir[1], pos[1][2] + dir[2]>>

\* new_position of Snake.move, main.py:146-148.
new_position(pos, dir) ==
    <<PyMod(pos[1][1] + dir[1], GRID_WIDTH), PyMod(pos[1][2] + dir[2], GRID_HEIGHT)>>

\* new_position in self.positions[1:]
InTail(c, pos) == \E i \in 2 .. Len(pos) : pos[i] = c

\* list.pop()
Pop(s) == SubSeq(s, 1, Len(s) - 1)

\* move testing the new head against positions[2:] only.
move_SliceFromTwo(pos, nd, g) ==
    LET np == new_position(pos, nd) IN
    IF \E i \in 3 .. Len(pos) : pos[i] = np
    THEN [ok |-> FALSE, positions |-> pos, grew |-> g]
    ELSE [ok |-> TRUE,
          positions |-> IF ~g THEN Pop(<<np>> \o pos) ELSE <<np>> \o pos,
          grew |-> FALSE]

\* move removing the tail whether or not growth is pending.
move_AlwaysPops(pos, nd, g) ==
    LET np == new_position(pos, nd) IN
    IF InTail(np, pos)
    THEN [ok |-> FALSE, positions |-> pos, grew |-> g]
    ELSE [ok |-> TRUE, positions |-> Pop(<<np>> \o pos), grew |-> FALSE]

\* move inserting the new head before it tests for the collision.
move_InsertsBeforeCheck(pos, nd, g) ==
    LET np == new_position(pos, nd) IN
    IF InTail(np, pos)
    THEN [ok |-> FALSE, positions |-> <<np>> \o pos, grew |-> g]
    ELSE [ok |-> TRUE,
          positions |-> IF ~g THEN Pop(<<np>> \o pos) ELSE <<np>> \o pos,
          grew |-> FALSE]

\* move treating the edges of the grid as walls.
move_Walls(pos, nd, g) ==
    LET np == new_position(pos, nd) IN
    IF InTail(np, pos) \/ np # <<pos[1][1] + nd[1], pos[1][2] + nd[2]>>
    THEN [ok |-> FALSE, positions |-> pos, grew |-> g]
    ELSE [ok |-> TRUE,
          positions |-> IF ~g THEN Pop(<<np>> \o pos) ELSE <<np>> \o pos,
          grew |-> FALSE]

\* move inserting the new head and then looking for it in the whole list.
move_ChecksAfterInsert(pos, nd, g) ==
    LET np == new_position(pos, nd) IN
    [ok |-> FALSE, positions |-> <<np>> \o pos, grew |-> g]

\* move leaving the last cell out of the test when no growth is pending, as
\* that cell is about to be vacated.
move_TailVacated(pos, nd, g) ==
    LET np == new_position(pos, nd) IN
    IF InTail(np, IF g THEN pos ELSE Pop(pos))
    THEN [ok |-> FALSE, positions |-> pos, grew |-> g]
    ELSE [ok |-> TRUE,
          positions |-> IF ~g THEN Pop(<<np>> \o pos) ELSE <<np>> \o pos,
          grew |-> FALSE]

\* Snake.move on a snake with body pos, pending direction nd and growth flag
\* g: what it returns and the body and flag it leaves. (It also sets
\* direction to nd, in both outcomes.)
move(pos, nd, g) ==
    LET np == new_position(pos, nd) IN
    IF InTail(np, pos)
    THEN [ok |-> FALSE, positions |-> pos, grew |-> g]
    ELSE [ok |-> TRUE,
          positions |-> IF ~g THEN Pop(<<np>> \o pos) ELSE <<np>> \o pos,
          grew |-> FALSE]

\* grow adding the segment at once.
grow_AppendsNow(pos, g) ==
    [positions |-> Append(pos, pos[Len(pos)]), grew |-> TRUE]

\* Snake.grow on a snake with body pos and growth flag g: the body and the
\* flag it leaves.
grow(pos, g) == [positions |-> pos, grew |-> TRUE]

----------------------------------------------------------------------------
\* Game

\* reset_game keeping the Snake's directions.
reset_game_KeepsDirection ==
    /\ positions' = << <<GRID_WIDTH \div 2, GRID_HEIGHT \div 2>> >>
    /\ UNCHANGED <<direction, next_direction>>
    /\ grew' = FALSE
    /\ food' \in Cells
    /\ score' = 0
    /\ last_request' = NoDirection
    /\ last_accepted' = NoDirection

\* reset_game keeping the score.
reset_game_KeepsScore ==
    /\ positions' = << <<GRID_WIDTH \div 2, GRID_HEIGHT \div 2>> >>
    /\ direction' = RIGHT
    /\ next_direction' = RIGHT
    /\ grew' = FALSE
    /\ food' \in Cells
    /\ UNCHANGED score
    /\ last_request' = NoDirection
    /\ last_accepted' = NoDirection

\* Game.reset_game: a new Snake, a new Food at any cell, score 0.
reset_game ==
    /\ positions' = << <<GRID_WIDTH \div 2, GRID_HEIGHT \div 2>> >>
    /\ direction' = RIGHT
    /\ next_direction' = RIGHT
    /\ grew' = FALSE
    /\ food' \in Cells
    /\ score' = 0
    /\ last_request' = NoDirection
    /\ last_accepted' = NoDirection

Init ==
    /\ game_state = MENU
    /\ selected_option = 0
    /\ positions = << <<GRID_WIDTH \div 2, GRID_HEIGHT \div 2>> >>
    /\ direction = RIGHT
    /\ next_direction = RIGHT
    /\ grew = FALSE
    /\ food \in Cells
    /\ score = 0
    /\ pc = "idle"
    /\ last_request = NoDirection
    /\ last_accepted = NoDirection

\* handle_menu_input: K_UP, K_DOWN
MenuMove ==
    /\ pc = "idle" /\ game_state = MENU
    /\ \E delta \in {-1, 1} :
         selected_option' = PyMod(selected_option + delta, NumMenuOptions)
    /\ UNCHANGED <<game_state, snake_vars, food, score, pc, history_vars>>

\* "Play Game" going back to the game that was left.
MenuPlay_Resumes ==
    /\ pc = "idle" /\ game_state = MENU /\ selected_option = 0
    /\ game_state' = PLAYING
    /\ UNCHANGED <<selected_option, snake_vars, food, score, pc, history_vars>>

\* handle_menu_input: K_RETURN or K_SPACE on "Play Game"
MenuPlay ==
    /\ pc = "idle" /\ game_state = MENU /\ selected_option = 0
    /\ reset_game
    /\ game_state' = PLAYING
    /\ UNCHANGED <<selected_option, pc>>

\* handle_menu_input: K_RETURN or K_SPACE on "Options"
MenuOptions ==
    /\ pc = "idle" /\ game_state = MENU /\ selected_option = 1
    /\ game_state' = OPTIONS
    /\ selected_option' = 0
    /\ UNCHANGED <<snake_vars, food, score, pc, history_vars>>

\* handle_options_input: K_UP, K_DOWN
OptionsMove ==
    /\ pc = "idle" /\ game_state = OPTIONS
    /\ \E delta \in {-1, 1} :
         selected_option' = PyMod(selected_option + delta, NumOptionsMenuItems)
    /\ UNCHANGED <<game_state, snake_vars, food, score, pc, history_vars>>

\* handle_options_input: K_ESCAPE, or K_RETURN or K_SPACE on "Back"
OptionsBack ==
    /\ pc = "idle" /\ game_state = OPTIONS
    /\ \E escape \in BOOLEAN : escape \/ selected_option = 3
    /\ game_state' = MENU
    /\ selected_option' = 0
    /\ UNCHANGED <<snake_vars, food, score, pc, history_vars>>

\* handle_game_input: a direction key
KeyDirection(d) ==
    /\ pc = "idle" /\ game_state = PLAYING
    /\ next_direction' = change_direction(next_direction, d)
    /\ last_request' = d
    /\ last_accepted' = IF d[1] + next_direction[1] = 0 /\ d[2] + next_direction[2] = 0
                        THEN last_accepted ELSE d
    /\ UNCHANGED <<game_state, selected_option, positions, direction, grew,
                   food, score, pc>>

\* handle_game_input: K_ESCAPE
KeyEscape ==
    /\ pc = "idle" /\ game_state = PLAYING
    /\ game_state' = MENU
    /\ UNCHANGED <<selected_option, snake_vars, food, score, pc, history_vars>>

\* handle_events in GAME_OVER: K_r
KeyRestart ==
    /\ pc = "idle" /\ game_state = GAME_OVER
    /\ reset_game
    /\ game_state' = PLAYING
    /\ UNCHANGED <<selected_option, pc>>

\* handle_events in GAME_OVER: K_m
KeyMenu ==
    /\ pc = "idle" /\ game_state = GAME_OVER
    /\ game_state' = MENU
    /\ UNCHANGED <<selected_option, snake_vars, food, score, pc, history_vars>>

\* Game.update, up to the while loop, played up to the score cap.
update_up_to(cap) ==
    /\ pc = "idle"
    /\ IF game_state = PLAYING
       THEN LET m == move(positions, next_direction, grew) IN
            /\ direction' = next_direction
            /\ UNCHANGED next_direction
            /\ last_request' = NoDirection
            /\ last_accepted' = NoDirection
            /\ IF ~m.ok
               THEN /\ game_state' = GAME_OVER
                    /\ positions' = m.positions
                    /\ grew' = m.grew
                    /\ UNCHANGED <<selected_option, food, score, pc>>
               ELSE IF m.positions[1] = food
               THEN /\ score < cap
                    /\ positions' = grow(m.positions, m.grew).positions
                    /\ grew' = grow(m.positions, m.grew).grew
                    /\ score' = score + 1
                    /\ pc' = "respawn"
                    /\ UNCHANGED <<game_state, selected_option, food>>
               ELSE /\ positions' = m.positions
                    /\ grew' = m.grew
                    /\ UNCHANGED <<game_state, selected_option, food, score, pc>>
       ELSE UNCHANGED vars

\* update without the test of game_state.
update_AnyState ==
    /\ pc = "idle"
    /\ LET m == move(positions, next_direction, grew) IN
       /\ direction' = next_direction
       /\ UNCHANGED next_direction
       /\ last_request' = NoDirection
       /\ last_accepted' = NoDirection
       /\ IF ~m.ok
          THEN /\ game_state' = GAME_OVER
               /\ positions' = m.positions
               /\ grew' = m.grew
               /\ UNCHANGED <<selected_option, food, score, pc>>
          ELSE IF m.positions[1] = food
          THEN /\ score < MaxScore
               /\ positions' = m.positions
               /\ grew' = TRUE
               /\ score' = score + 1
               /\ pc' = "respawn"
               /\ UNCHANGED <<game_state, selected_option, food>>
          ELSE /\ positions' = m.positions
               /\ grew' = m.grew
               /\ UNCHANGED <<game_state, selected_option, food, score, pc>>

\* Game.update, up to the while loop
update == update_up_to(MaxScore)

\* The loop of update testing the sample against the head only.
respawn_HeadOnly ==
    /\ pc = "respawn"
    /\ food' \in Cells
    /\ pc' = IF positions[1] = food' THEN "respawn" ELSE "idle"
    /\ UNCHANGED <<game_state, selected_option, snake_vars, score, history_vars>>

\* The loop of update with the score incremented inside it.
respawn_ScoresEachTurn ==
    /\ pc = "respawn"
    /\ food' \in Cells
    /\ score' = score + 1
    /\ pc' = IF \E i \in 1 .. Len(positions) : positions[i] = food'
             THEN "respawn" ELSE "idle"
    /\ UNCHANGED <<game_state, selected_option, snake_vars, history_vars>>

\* The loop of update with randomize_position called before it, not in it.
respawn_SampleOutsideLoop ==
    /\ pc = "respawn"
    /\ food' = food
    /\ pc' = IF \E i \in 1 .. Len(positions) : positions[i] = food'
             THEN "respawn" ELSE "idle"
    /\ UNCHANGED <<game_state, selected_option, snake_vars, score, history_vars>>

\* One turn of the while loop of Game.update: randomize_position, then the
\* membership test that leaves the loop.
respawn ==
    /\ pc = "respawn"
    /\ food' \in Cells
    /\ pc' = IF \E i \in 1 .. Len(positions) : positions[i] = food'
             THEN "respawn" ELSE "idle"
    /\ UNCHANGED <<game_state, selected_option, snake_vars, score, history_vars>>

Next ==
    \/ MenuMove
    \/ MenuPlay
    \/ MenuOptions
    \/ OptionsMove
    \/ OptionsBack
    \/ \E d \in Directions : KeyDirection(d)
    \/ KeyEscape
    \/ KeyRestart
    \/ KeyMenu
    \/ update
    \/ respawn

Spec == Init /\ [][Next]_vars

----------------------------------------------------------------------------
\* One game after another, without the menus, each played until the snake
\* collides or the grid is full.

\* The largest score there is: the number of cells of the grid.
FullScore == GRID_WIDTH * GRID_HEIGHT

\* Game.update, up to the while loop, with no score it stops at before that.
update_to_full == update_up_to(FullScore)

\* The state "Play Game" leaves when chosen in the menu the program starts in.
InitPlay ==
    /\ game_state = PLAYING
    /\ selected_option = 0
    /\ positions = << <<GRID_WIDTH \div 2, GRID_HEIGHT \div 2>> >>
    /\ direction = RIGHT
    /\ next_direction = RIGHT
    /\ grew = FALSE
    /\ food \in Cells
    /\ score = 0
    /\ pc = "idle"
    /\ last_request = NoDirection
    /\ last_accepted = NoDirection

NextPlay ==
    \/ \E d \in Directions : KeyDirection(d)
    \/ KeyRestart
    \/ update_to_full
    \/ respawn

SpecPlay == InitPlay /\ [][NextPlay]_vars

\* random.randint is fair: a cell the loop can sample again and again is
\* sampled at some time.
FairSampler == \A c \in Cells : WF_vars(respawn /\ food' = c)

FairSpecPlay == SpecPlay /\ FairSampler

----------------------------------------------------------------------------
\* Notions the properties are stated with

\* The direction pointing the other way.
Negated(d) == <<0 - d[1], 0 - d[2]>>

\* c is one of the cells of pos.
InBody(c, pos) == \E i \in 1 .. Len(pos) : pos[i] = c

\* No cell occurs twice in pos.
NoDuplicates(pos) == \A i, j \in 1 .. Len(pos) : i # j => pos[i] # pos[j]

\* The cell is on the grid.
InGrid(c) == c[1] \in 0 .. GRID_WIDTH - 1 /\ c[2] \in 0 .. GRID_HEIGHT - 1

\* A coordinate one step off either end of 0 .. n-1 re-enters at the other end.
Wrap(v, n) == IF v = n THEN 0 ELSE IF v = -1 THEN n - 1 ELSE v

\* The cell one step from the head in direction d, on the torus.
Ahead(pos, d) == <<Wrap(pos[1][1] + d[1], GRID_WIDTH), Wrap(pos[1][2] + d[2], GRID_HEIGHT)>>

\* This step is a tick: Game.update running while PLAYING.
Tick == pc = "idle" /\ game_state = PLAYING /\ update

\* The growth still to be applied to the body.
Pending(g) == IF g THEN 1 ELSE 0

----------------------------------------------------------------------------
\* C1: while the game is PLAYING, the snake's position list contains no cell
\* twice, whatever direction requests and ticks led there.
C1_NoDuplicateCells == game_state = PLAYING => NoDuplicates(positions)

\* A snake of three or more cells, still playing.
C1_Witness == game_state = PLAYING /\ pc = "idle" /\ Len(positions) >= 3

\* C2 as stated: a tick whose moved head lands on the food leaves the body
\* longer by exactly 1 and the score larger by exactly 1; any other tick that
\* does not end the game leaves the body length unchanged.
C2_GrowthInSameTick ==
    [][(Tick /\ game_state' = PLAYING) =>
         IF positions'[1] = food
         THEN Len(positions') = Len(positions) + 1 /\ score' = score + 1
         ELSE Len(positions') = Len(positions)]_vars

\* C2, amended: a tick whose moved head lands on the food leaves the score
\* larger by exactly 1 and one segment of growth pending; the body is longer
\* by exactly 1 after a tick that does not end the game exactly when growth
\* was pending before it (the food was eaten in the tick before), and has
\* the same length after any other such tick.
C2_GrowthDeferred ==
    [][(Tick /\ game_state' = PLAYING) =>
         /\ Len(positions') = Len(positions) + Pending(grew)
         /\ grew' = (positions'[1] = food)
         /\ score' = score + Pending(positions'[1] = food)]_vars

\* Right after the first food was eaten: the score is 1, the growth is
\* pending and the body still has one cell.
C2_Witness ==
    /\ game_state = PLAYING /\ pc = "idle"
    /\ score = 1 /\ grew /\ Len(positions) = 1

\* C3: when the wrapped new head is a body cell at index 1 or later, move
\* returns False and leaves the position list as it was, and update sets
\* GAME_OVER and leaves the food and the score alone.
C3_CollisionLeavesBody ==
    [][(Tick /\ InTail(Ahead(positions, next_direction), positions)) =>
         /\ ~move(positions, next_direction, grew).ok
         /\ move(positions, next_direction, grew).positions = positions
         /\ positions' = positions
         /\ game_state' = GAME_OVER
         /\ food' = food
         /\ score' = score]_vars

\* A game that ended with a snake of four cells whose next head was its
\* third cell.
C3_Witness ==
    /\ game_state = GAME_OVER
    /\ Len(positions) = 4
    /\ Ahead(positions, direction) = positions[3]

\* C4: when the respawn loop of update finishes, the new food cell is not a
\* cell of the snake, whatever cells were sampled.
C4_RespawnExclusion ==
    [][(pc = "respawn" /\ pc' = "idle") => ~InBody(food', positions')]_vars

\* The loop has finished after a snake of two or more cells ate.
C4_Witness ==
    /\ pc = "idle" /\ game_state = PLAYING
    /\ grew /\ Len(positions) >= 2
    /\ ~InBody(food, positions)

\* C5: between ticks, from the creation of the session on, the food is not
\* on any cell of the snake.
C5_FoodNeverOnSnake == pc = "idle" => ~InBody(food, positions)

\* C6: change_direction(d) leaves the pending direction as it is when d is
\* its opposite and sets it to d otherwise; the committed direction, the
\* body and the growth flag stay as they are.
C6_DirectionRequestRule ==
    [][\A d \in Directions :
         KeyDirection(d) =>
           /\ next_direction' = IF d = Negated(next_direction)
                                THEN next_direction ELSE d
           /\ UNCHANGED <<direction, positions, grew>>]_vars

\* A request for the opposite of the pending direction was made and the
\* pending direction is what it was.
C6_Witness ==
    /\ game_state = PLAYING /\ pc = "idle"
    /\ last_request = Negated(next_direction)

\* C7: the direction a move commits is never the opposite of the one the
\* previous move committed, so a snake of two or more cells never steps onto
\* its second cell.
C7_NoReversal ==
    [][(Tick /\ Len(positions) >= 2) =>
         /\ direction' # Negated(direction)
         /\ Ahead(positions, direction') # positions[2]]_vars

\* C8 as stated: the direction the next move commits is that of the most
\* recent request made since the previous move.
C8_LatestRequestWins ==
    [][(Tick /\ last_request # NoDirection) => direction' = last_request]_vars

\* C8, amended: the direction the next move commits is that of the most
\* recent request that was not the opposite of the pending direction when it
\* was made, and the direction committed before when there is no such
\* request; one pending direction is kept, no queue.
C8_LatestAcceptedRequestWins ==
    [][Tick => direction' = IF last_accepted # NoDirection
                            THEN last_accepted ELSE direction]_vars

\* Two requests since the last move, the later one refused.
C8_Witness ==
    /\ game_state = PLAYING /\ pc = "idle"
    /\ last_accepted # NoDirection
    /\ last_request # last_accepted
    /\ next_direction # direction

C10_ScoreAccounting ==
    /\ [](score >= 0)
    /\ [][\/ score' = score
          \/ /\ score' = score + 1
             /\ Tick
             /\ move(positions, next_direction, grew).ok
             /\ positions'[1] = food
          \/ /\ score' = 0
             /\ MenuPlay \/ KeyRestart]_vars

\* A second food was eaten.
C10_Witness == game_state = PLAYING /\ pc = "idle" /\ score = 2

----------------------------------------------------------------------------
\* What a game that is over, or was left, keeps.
frozen_vars == <<positions, direction, next_direction, grew, food, score>>

\* The snake and the score as reset_game leaves them.
Fresh ==
    /\ positions = << <<GRID_WIDTH \div 2, GRID_HEIGHT \div 2>> >>
    /\ direction = RIGHT
    /\ next_direction = RIGHT
    /\ grew = FALSE
    /\ score = 0

\* The snake covers the grid.
GridFull == Len(positions) = GRID_WIDTH * GRID_HEIGHT

\* C11: once the game is over, update calls and key events other than the
\* one that calls reset_game leave the body, the directions, the growth
\* flag, the food and the score as they are; an update call in MENU or
\* OPTIONS changes nothing.
C11_TerminatedIsFrozen ==
    [][/\ (game_state = GAME_OVER /\ ~KeyRestart) => UNCHANGED frozen_vars
       /\ (game_state # PLAYING /\ update) => UNCHANGED vars]_vars

\* A game that is over with growth still pending.
C11_Witness ==
    /\ game_state = GAME_OVER /\ pc = "idle"
    /\ grew /\ Len(positions) >= 2

\* C12: reset_game leaves one cell at the grid centre, both directions
\* RIGHT, no growth pending and score 0, whatever the state before; and the
\* game leaves GAME_OVER only by the key that calls reset_game or to the
\* menu, from where only "Play Game", which calls reset_game, leads to
\* PLAYING.
C12_ResetRestores ==
    [][/\ (MenuPlay \/ KeyRestart) => (Fresh' /\ game_state' = PLAYING)
       /\ (game_state = GAME_OVER /\ game_state' # GAME_OVER) =>
             (KeyRestart \/ (game_state' = MENU /\ UNCHANGED frozen_vars))
       /\ (game_state # PLAYING /\ game_state' = PLAYING) =>
             (MenuPlay \/ KeyRestart)]_vars

\* A new game, with the food at the far corner.
C12_Witness ==
    /\ game_state = PLAYING /\ pc = "idle" /\ Fresh
    /\ food = <<GRID_WIDTH - 1, GRID_HEIGHT - 1>>

\* C13: grow only sets the flag; a successful move with the flag set puts
\* the new head in front and keeps the tail, and clears the flag; a
\* successful move with the flag clear puts the new head in front and
\* removes the tail.
C13_GrowthAtTickBoundary ==
    [][(Tick /\ game_state' = PLAYING) =>
         LET np == Ahead(positions, next_direction) IN
         /\ positions' = IF grew
                         THEN <<np>> \o positions
                         ELSE <<np>> \o SubSeq(positions, 1, Len(positions) - 1)
         /\ ~move(positions, next_direction, grew).grew
         /\ grew' = (np = food)]_vars

\* The growth of the first food has been applied: two cells, nothing
\* pending.
C13_Witness ==
    /\ game_state = PLAYING /\ pc = "idle"
    /\ score = 1 /\ ~grew /\ Len(positions) = 2

\* C14: with a fair sampler, a respawn loop that runs while some cell is not
\* on the snake is left at some time.
C14_RespawnTerminates == (pc = "respawn" /\ ~GridFull) ~> (pc = "idle")

\* The loop has refused a sample and goes on.
C14_Witness ==
    /\ pc = "respawn" /\ ~GridFull
    /\ food # positions[1] /\ InBody(food, positions)

\* C15: when the head has eaten and the body covers the grid, the respawn
\* loop is never left: the game neither goes on nor is over.
C15_FullGridHang ==
    [][(pc = "respawn" /\ GridFull) =>
         (pc' = "respawn" /\ UNCHANGED <<game_state, positions, score>>)]_vars

\* Play has filled the grid and is in the loop.
C15_Witness == pc = "respawn" /\ GridFull /\ game_state = PLAYING

C17_LengthScoreBookkeeping ==
    /\ [](/\ Len(positions) + Pending(grew) = score + 1
          /\ Len(positions) >= 1
          /\ (game_state = GAME_OVER /\ grew) => Len(positions) = score)
    /\ [][(Tick /\ game_state' = PLAYING /\ positions'[1] = food) =>
            ~move(positions, next_direction, grew).grew]_vars

\* A game that ended in the tick after the snake ate.
C17_Witness ==
    /\ game_state = GAME_OVER
    /\ grew /\ Len(positions) = score /\ score >= 2

\* C18: in every GAME_OVER state the score is at least 1 and the body has at
\* least 2 cells.
C18_NoGameOverBeforeFood ==
    game_state = GAME_OVER => (score >= 1 /\ Len(positions) >= 2)

\* A game that ended with score 1 and two cells.
C18_Witness == game_state = GAME_OVER /\ score = 1 /\ Len(positions) = 2

\* C19: every step into PLAYING leaves a one-cell snake at the grid centre
\* heading RIGHT with score 0.
C19_PlayingStartsFresh ==
    [][(game_state # PLAYING /\ game_state' = PLAYING) => Fresh']_vars

\* A game that was left for the menu, where "Play Game" is selected.
C19_Witness ==
    /\ game_state = MENU /\ selected_option = 0 /\ pc = "idle"
    /\ Len(positions) >= 2 /\ score >= 1

\* C20: a move whose new head is the last body cell ends the game, also when
\* no growth is pending.
C20_TailChasingCollides ==
    [][(Tick /\ Len(positions) >= 2
          /\ Ahead(positions, next_direction) = positions[Len(positions)]) =>
         (game_state' = GAME_OVER /\ positions' = positions)]_vars

\* A game ended by a four-cell snake, no growth pending, whose next head was
\* its last cell.
C20_Witness ==
    /\ game_state = GAME_OVER /\ ~grew
    /\ Len(positions) = 4
    /\ Ahead(positions, direction) = positions[4]

====
